---- MODULE Spec2Model ----
(***************************************************************************)
(* Monte Carlo Tree Search of mcts_vanilla.py: think() and the functions   *)
(* it calls (traverse_nodes, expand_leaf, rollout, is_win, backpropagate,  *)
(* ucb, get_best_action), run against a small rules engine.                *)
(*                                                                         *)
(* A tree node is a record in the sequence `nodes`; a node is named by its *)
(* index, the root is node 1 and None is 0.  A Python dict is a sequence   *)
(* of [action, child] entries in insertion order, a Python list a          *)
(* sequence.  Floats of ucb are fixed-point numbers scaled by SCALE.       *)
(***************************************************************************)
EXTENDS Integers, Sequences, FiniteSets, TLC

VARIABLES
    current_state,  \* think: the state the search is called on
    num_nodes,      \* the iteration count (module global num_nodes)
    bot_identity,   \* think: board.current_player(current_state)
    nodes,          \* the heap of MCTSNode objects, root_node is nodes[1]
    iter,           \* think: number of completed iterations of the for loop
    pc,             \* position in think
    node,           \* think: local `node`
    state,          \* think: local `state`
    path,           \* nodes traverse_nodes went through in this iteration
    sel_node,       \* node returned by traverse_nodes in this iteration
    sel_state,      \* state returned by traverse_nodes in this iteration
    sel_flags,      \* is_opponent at each node traverse_nodes descended from
    sel_scores,     \* ucb_values at each node traverse_nodes descended from
    new_node,       \* expand_leaf: local `new_node` (None when none was created)
    rstate,         \* rollout: local `state`
    depth,          \* rollout: local `depth`
    moves,          \* rollout: the next_state calls it has made
    final_state,    \* think: local `final_state`
    won,            \* think: local `won`
    bp,             \* backpropagate: local `node`
    bp_entry,       \* the heap as it was when backpropagate was called
    calls,          \* the calls of backpropagate think has made: [node, won]
    best_action     \* think: the value returned

vars == <<current_state, num_nodes, bot_identity, nodes, iter, pc, node, state,
          path, sel_node, sel_state, new_node, rstate, depth,
          final_state, won, bp, bp_entry, calls, moves, sel_flags, sel_scores,
          best_action>>

-----------------------------------------------------------------------------
(* Bounds and program constants *)

\* Largest iteration count explored (num_nodes is 1000 in the source).
MaxIterations == 9

MAX_DEPTH == 100

explore_faction == 2

\* Python's None: as a node reference, and as "no action".
None == 0

NoAction == "None"

-----------------------------------------------------------------------------
(* The rules engine (Board): a family of small games sharing one state     *)
(* space.  Player 1 wins in W1, player 2 wins in W2, T is a draw.          *)

Players == {1, 2}

States == {"A", "B", "D", "E", "F", "G", "S", "Y", "Z", "W1", "W2", "T"}

Actions == {"a", "b"}

is_ended(s) == s \in {"W1", "W2", "T"}

current_player(s) == IF s \in {"E", "F", "Y"} THEN 2 ELSE 1

legal_actions(s) ==
    CASE s \in {"A", "B", "D", "E", "G", "Y"} -> <<"a", "b">>
      [] s \in {"F", "Z"} -> <<"a">>
      [] OTHER -> << >>

next_state(s, a) ==
    CASE s = "A" -> IF a = "a" THEN "W1" ELSE "W2"
      [] s = "B" -> IF a = "a" THEN "W2" ELSE "W1"
      [] s = "D" -> IF a = "a" THEN "E" ELSE "F"
      [] s = "E" -> IF a = "a" THEN "W1" ELSE "W2"
      [] s = "F" -> "A"
      [] s = "G" -> IF a = "a" THEN "S" ELSE "W1"
      [] s = "Y" -> IF a = "a" THEN "Z" ELSE "T"
      [] s = "Z" -> "Z"
      [] OTHER -> s

\* points_values: player -> outcome for an ended state, otherwise the
\* "not terminal" sentinel (None), here the empty tuple.
NotTerminal == << >>

points_values(s) ==
    CASE s = "W1" -> <<1, -1>>
      [] s = "W2" -> <<-1, 1>>
      [] s = "T" -> <<0, 0>>
      [] OTHER -> NotTerminal

-----------------------------------------------------------------------------
(* MCTSNode and the Python containers it uses *)

MCTSNode(parent, parent_action, action_list) ==
    [parent |-> parent, parent_action |-> parent_action,
     child_nodes |-> << >>, untried_actions |-> action_list,
     wins |-> 0, visits |-> 0]

Range(seq) == {seq[i] : i \in 1..Len(seq)}

\* dict: keys in insertion order
DictKeys(d) == [i \in 1..Len(d) |-> d[i].action]

DictHas(d, k) == \E i \in 1..Len(d) : d[i].action = k

DictGet(d, k) == d[CHOOSE i \in 1..Len(d) : d[i].action = k].child

\* d[k] = v : an existing key keeps its place and gets the new value
DictSet(d, k, v) ==
    IF DictHas(d, k)
    THEN [i \in 1..Len(d) |-> IF d[i].action = k
                              THEN [action |-> k, child |-> v] ELSE d[i]]
    ELSE Append(d, [action |-> k, child |-> v])

\* list.pop(): the last element, and the list without it
ListLast(l) == l[Len(l)]

ListPop(l) == SubSeq(l, 1, Len(l) - 1)

-----------------------------------------------------------------------------
(* ucb: float arithmetic as fixed point.  A float x is the integer         *)
(* floor(x * SCALE); sqrt and log are the integer square root and a table  *)
(* of floor(ln(n) * SCALE^2).  For parent visits up to Len(LogTable) the   *)
(* order (<, =, >) of any two scores of siblings is that of the floats.    *)

SCALE == 10000

\* float('inf')
Inf == 1000000000

\* the ValueError of math.log(0)
ValueError == -1

LogTable == <<0, 69314718, 109861228, 138629436, 160943791, 179175946,
              194591014, 207944154, 219722457, 230258509, 239789527,
              248490664>>

RECURSIVE SqrtSearch(_, _, _)
SqrtSearch(x, lo, hi) ==
    IF lo >= hi THEN lo
    ELSE LET mid == (lo + hi + 1) \div 2
         IN IF mid * mid <= x THEN SqrtSearch(x, mid, hi)
                              ELSE SqrtSearch(x, lo, mid - 1)

\* floor(sqrt(x)) for 0 <= x < 2^31
sqrt(x) == SqrtSearch(x, 0, 46340)

\* ucb without the infinite score of an unvisited node
ucb_zero_for_unvisited(nds, n, is_opponent) ==
    IF nds[n].visits = 0 THEN 0
    ELSE IF nds[nds[n].parent].visits = 0 THEN ValueError
    ELSE LET rate == (nds[n].wins * SCALE) \div nds[n].visits
             win_rate == IF is_opponent THEN SCALE - rate ELSE rate
             exploration_term ==
                 explore_faction *
                 sqrt(LogTable[nds[nds[n].parent].visits] \div nds[n].visits)
         IN win_rate + exploration_term

\* ucb with the win rate never inverted
ucb_without_inversion(nds, n, is_opponent) ==
    IF nds[n].visits = 0 THEN Inf
    ELSE IF nds[nds[n].parent].visits = 0 THEN ValueError
    ELSE LET win_rate == (nds[n].wins * SCALE) \div nds[n].visits
             exploration_term ==
                 explore_faction *
                 sqrt(LogTable[nds[nds[n].parent].visits] \div nds[n].visits)
         IN win_rate + exploration_term

ucb(nds, n, is_opponent) ==
    IF nds[n].visits = 0 THEN Inf
    ELSE IF nds[nds[n].parent].visits = 0 THEN ValueError
    ELSE LET rate == (nds[n].wins * SCALE) \div nds[n].visits
             win_rate == IF is_opponent THEN SCALE - rate ELSE rate
             exploration_term ==
                 explore_faction *
                 sqrt(LogTable[nds[nds[n].parent].visits] \div nds[n].visits)
         IN win_rate + exploration_term

\* {action: ucb(child, is_opponent) for action, child in child_nodes.items()}
ucb_values(nds, n, is_opponent) ==
    [i \in 1..Len(nds[n].child_nodes) |->
        ucb(nds, nds[n].child_nodes[i].child, is_opponent)]

\* the last key of a largest value (a maximum kept on >=)
MaxKeyLast(keys, values) ==
    keys[CHOOSE i \in 1..Len(values) :
            /\ \A j \in 1..Len(values) : values[j] <= values[i]
            /\ \A j \in (i + 1)..Len(values) : values[j] < values[i]]

\* max(d, key=d.get): the first key, in the dict's order, of a largest value
MaxKey(keys, values) ==
    keys[CHOOSE i \in 1..Len(values) :
            /\ \A j \in 1..Len(values) : values[j] <= values[i]
            /\ \A j \in 1..(i - 1) : values[j] < values[i]]

-----------------------------------------------------------------------------
(* traverse_nodes: the node and state it returns, the nodes it went        *)
(* through, and whether ucb raised on the way.                             *)

RECURSIVE traverse_nodes(_, _, _, _)
traverse_nodes(nds, n, s, bot) ==
    IF nds[n].child_nodes # << >> /\ nds[n].untried_actions = << >>
    THEN LET is_opponent == IF nds[n].parent = None THEN FALSE
                            ELSE current_player(s) # bot
             values == ucb_values(nds, n, is_opponent)
             action == MaxKey(DictKeys(nds[n].child_nodes), values)
         IN IF \E i \in 1..Len(values) : values[i] = ValueError
            THEN [node |-> n, state |-> s, path |-> <<n>>, raised |-> TRUE,
                  flags |-> <<is_opponent>>, scores |-> <<values>>]
            ELSE LET r == traverse_nodes(nds, DictGet(nds[n].child_nodes, action),
                                         next_state(s, action), bot)
                 IN [r EXCEPT !.path = <<n>> \o @,
                              !.flags = <<is_opponent>> \o @,
                              !.scores = <<values>> \o @]
    ELSE [node |-> n, state |-> s, path |-> <<n>>, raised |-> FALSE,
          flags |-> << >>, scores |-> << >>]

-----------------------------------------------------------------------------
(* expand_leaf: the heap after the call, the pair it returns and the node  *)
(* it created.                                                             *)

\* expand_leaf reading the last untried action without removing it
expand_leaf_without_pop(nds, n, s) ==
    IF nds[n].untried_actions # << >>
    THEN LET action == ListLast(nds[n].untried_actions)
             new_state == next_state(s, action)
             created == Len(nds) + 1
             heap == Append(nds, MCTSNode(n, action, legal_actions(new_state)))
         IN [nodes |-> [heap EXCEPT ![n].child_nodes = DictSet(@, action, created)],
             node |-> n, state |-> s, new_node |-> created]
    ELSE [nodes |-> nds, node |-> n, state |-> s, new_node |-> None]

\* expand_leaf making a child for every untried action at once
RECURSIVE expand_leaf_all(_, _, _)
expand_leaf_all(nds, n, s) ==
    IF nds[n].untried_actions # << >>
    THEN LET action == ListLast(nds[n].untried_actions)
             popped == [nds EXCEPT ![n].untried_actions = ListPop(@)]
             new_state == next_state(s, action)
             created == Len(nds) + 1
             heap == Append(popped, MCTSNode(n, action, legal_actions(new_state)))
             one == [heap EXCEPT ![n].child_nodes = DictSet(@, action, created)]
         IN IF one[n].untried_actions # << >>
            THEN expand_leaf_all(one, n, s)
            ELSE [nodes |-> one, node |-> n, state |-> s, new_node |-> created]
    ELSE [nodes |-> nds, node |-> n, state |-> s, new_node |-> None]

\* expand_leaf giving the child the legal actions of the parent's state
expand_leaf_parent_actions(nds, n, s) ==
    IF nds[n].untried_actions # << >>
    THEN LET action == ListLast(nds[n].untried_actions)
             popped == [nds EXCEPT ![n].untried_actions = ListPop(@)]
             created == Len(nds) + 1
             heap == Append(popped, MCTSNode(n, action, legal_actions(s)))
         IN [nodes |-> [heap EXCEPT ![n].child_nodes = DictSet(@, action, created)],
             node |-> n, state |-> s, new_node |-> created]
    ELSE [nodes |-> nds, node |-> n, state |-> s, new_node |-> None]

expand_leaf(nds, n, s) ==
    IF nds[n].untried_actions # << >>
    THEN LET action == ListLast(nds[n].untried_actions)
             popped == [nds EXCEPT ![n].untried_actions = ListPop(@)]
             new_state == next_state(s, action)
             created == Len(nds) + 1
             heap == Append(popped, MCTSNode(n, action, legal_actions(new_state)))
         IN [nodes |-> [heap EXCEPT ![n].child_nodes = DictSet(@, action, created)],
             node |-> n, state |-> s, new_node |-> created]
    ELSE [nodes |-> nds, node |-> n, state |-> s, new_node |-> None]

-----------------------------------------------------------------------------
(* get_best_action *)

RECURSIVE BestFrom(_, _, _, _, _)
BestFrom(nds, items, i, best, max_visits) ==
    IF i > Len(items) THEN best
    ELSE IF nds[items[i].child].visits > max_visits
         THEN BestFrom(nds, items, i + 1, items[i].action, nds[items[i].child].visits)
         ELSE BestFrom(nds, items, i + 1, best, max_visits)

get_best_action(nds, root) == BestFrom(nds, nds[root].child_nodes, 1, NoAction, -1)

-----------------------------------------------------------------------------
(* is_win: the assertion, and the value returned when it passes *)

is_win_asserts(s) == points_values(s) = NotTerminal

is_win(s, identity_of_bot) == points_values(s)[identity_of_bot] = 1

-----------------------------------------------------------------------------
(* backpropagate: the loop test and the two updates of its body *)

\* the loop test stopping below the root (while node.parent is not None)
backpropagate_stops_below_root(nds, n) == n # None /\ nds[n].parent # None

backpropagate_continues(nds, n) == n # None

\* the simulation counted twice
visit_twice(nd) == [nd EXCEPT !.visits = @ + 2]

visit(nd) == [nd EXCEPT !.visits = @ + 1]

\* the result scored +1 / -1 instead of counted
win_scored(nd, w) == [nd EXCEPT !.wins = IF w THEN @ + 1 ELSE @ - 1]

\* the win counted whatever the result
win_always(nd, w) == [nd EXCEPT !.wins = @ + 1]

win(nd, w) == IF w THEN [nd EXCEPT !.wins = @ + 1] ELSE nd

-----------------------------------------------------------------------------
(* rollout: the test of its loop *)

\* the depth bound tested with <=
rollout_continues_one_more(s, d) == ~is_ended(s) /\ d <= MAX_DEPTH

rollout_continues(s, d) == ~is_ended(s) /\ d < MAX_DEPTH

-----------------------------------------------------------------------------
(* think *)

Init ==
    /\ current_state \in States
    /\ num_nodes \in 1..MaxIterations
    /\ bot_identity = None
    /\ nodes = << >>
    /\ iter = 0
    /\ pc = "start"
    /\ node = None
    /\ state = current_state
    /\ path = << >>
    /\ sel_node = None
    /\ sel_flags = << >>
    /\ sel_scores = << >>
    /\ sel_state = current_state
    /\ new_node = None
    /\ rstate = current_state
    /\ depth = 0
    /\ moves = 0
    /\ final_state = current_state
    /\ won = FALSE
    /\ bp = None
    /\ bp_entry = << >>
    /\ calls = << >>
    /\ best_action = NoAction

\* bot_identity and root_node
ThinkStart ==
    /\ pc = "start"
    /\ bot_identity' = current_player(current_state)
    /\ nodes' = <<MCTSNode(None, NoAction, legal_actions(current_state))>>
    /\ pc' = "select"
    /\ UNCHANGED <<bp_entry, calls>>
    /\ UNCHANGED moves
    /\ UNCHANGED <<sel_flags, sel_scores>>
    /\ UNCHANGED <<current_state, num_nodes, iter, node, state, path, sel_node,
                   sel_state, new_node, rstate, depth, final_state, won, bp,
                   best_action>>

\* the head of an iteration and the call of traverse_nodes
TraverseNodes ==
    /\ pc = "select"
    /\ iter < num_nodes
    /\ LET r == traverse_nodes(nodes, 1, current_state, bot_identity)
       IN /\ node' = r.node
          /\ state' = r.state
          /\ path' = r.path
          /\ sel_node' = r.node
          /\ sel_state' = r.state
          /\ sel_flags' = r.flags
          /\ sel_scores' = r.scores
          /\ pc' = IF r.raised THEN "value_error" ELSE "expand"
    /\ new_node' = None
    /\ UNCHANGED <<bp_entry, calls>>
    /\ UNCHANGED moves
    /\ UNCHANGED <<current_state, num_nodes, bot_identity, nodes, iter, rstate,
                   depth, final_state, won, bp, best_action>>

\* if node.untried_actions: node, state = expand_leaf(node, board, state);
\* then the entry of rollout
ExpandLeaf ==
    /\ pc = "expand"
    /\ IF nodes[node].untried_actions # << >>
       THEN LET r == expand_leaf(nodes, node, state)
            IN /\ nodes' = r.nodes
               /\ node' = r.node
               /\ state' = r.state
               /\ new_node' = r.new_node
               /\ rstate' = r.state
       ELSE /\ rstate' = state
            /\ UNCHANGED <<nodes, node, state, new_node>>
    /\ depth' = 0
    /\ moves' = 0
    /\ pc' = "rollout"
    /\ UNCHANGED <<bp_entry, calls>>
    /\ UNCHANGED <<sel_flags, sel_scores>>
    /\ UNCHANGED <<current_state, num_nodes, bot_identity, iter, path, sel_node,
                   sel_state, final_state, won, bp, best_action>>

\* one turn of rollout's loop, with the move random.choice draws
RolloutMove ==
    /\ pc = "rollout"
    /\ rollout_continues(rstate, depth)
    /\ legal_actions(rstate) # << >>
    /\ \E move \in Range(legal_actions(rstate)) :
          rstate' = next_state(rstate, move)
    /\ depth' = depth + 1
    /\ moves' = moves + 1
    /\ UNCHANGED <<bp_entry, calls>>
    /\ UNCHANGED <<sel_flags, sel_scores>>
    /\ UNCHANGED <<current_state, num_nodes, bot_identity, nodes, iter, pc, node,
                   state, path, sel_node, sel_state, new_node, final_state, won,
                   bp, best_action>>

\* rollout leaves its loop (the game ended, the depth bound, or the break)
RolloutReturn ==
    /\ pc = "rollout"
    /\ \/ ~rollout_continues(rstate, depth)
       \/ legal_actions(rstate) = << >>
    /\ final_state' = rstate
    /\ pc' = "is_win"
    /\ UNCHANGED <<bp_entry, calls>>
    /\ UNCHANGED moves
    /\ UNCHANGED <<sel_flags, sel_scores>>
    /\ UNCHANGED <<current_state, num_nodes, bot_identity, nodes, iter, node,
                   state, path, sel_node, sel_state, new_node, rstate, depth,
                   won, bp, best_action>>

\* won = is_win(board, final_state, bot_identity), then the entry of
\* backpropagate(node, won)
IsWin ==
    /\ pc = "is_win"
    /\ IF is_win_asserts(final_state)
       THEN /\ pc' = "assertion_error"
            /\ UNCHANGED <<won, bp, bp_entry, calls>>
       ELSE /\ won' = is_win(final_state, bot_identity)
            /\ bp' = node
            /\ bp_entry' = nodes
            /\ calls' = Append(calls, [node |-> node,
                                       won |-> is_win(final_state, bot_identity)])
            /\ pc' = "backpropagate"
    /\ UNCHANGED moves
    /\ UNCHANGED <<sel_flags, sel_scores>>
    /\ UNCHANGED <<current_state, num_nodes, bot_identity, nodes, iter, node,
                   state, path, sel_node, sel_state, new_node, rstate, depth,
                   final_state, best_action>>

\* node.visits += 1
BackpropagateVisits ==
    /\ pc = "backpropagate"
    /\ backpropagate_continues(nodes, bp)
    /\ nodes' = [nodes EXCEPT ![bp] = visit(@)]
    /\ pc' = "backpropagate_wins"
    /\ UNCHANGED <<bp_entry, calls>>
    /\ UNCHANGED moves
    /\ UNCHANGED <<sel_flags, sel_scores>>
    /\ UNCHANGED <<current_state, num_nodes, bot_identity, iter, node, state,
                   path, sel_node, sel_state, new_node, rstate, depth,
                   final_state, won, bp, best_action>>

\* if won: node.wins += 1; node = node.parent
BackpropagateWins ==
    /\ pc = "backpropagate_wins"
    /\ nodes' = [nodes EXCEPT ![bp] = win(@, won)]
    /\ bp' = nodes[bp].parent
    /\ pc' = "backpropagate"
    /\ UNCHANGED <<bp_entry, calls>>
    /\ UNCHANGED moves
    /\ UNCHANGED <<sel_flags, sel_scores>>
    /\ UNCHANGED <<current_state, num_nodes, bot_identity, iter, node, state,
                   path, sel_node, sel_state, new_node, rstate, depth,
                   final_state, won, best_action>>

\* backpropagate returns: the iteration is over
BackpropagateReturn ==
    /\ pc = "backpropagate"
    /\ ~backpropagate_continues(nodes, bp)
    /\ iter' = iter + 1
    /\ pc' = "select"
    /\ UNCHANGED <<bp_entry, calls>>
    /\ UNCHANGED moves
    /\ UNCHANGED <<sel_flags, sel_scores>>
    /\ UNCHANGED <<current_state, num_nodes, bot_identity, nodes, node, state,
                   path, sel_node, sel_state, new_node, rstate, depth,
                   final_state, won, bp, best_action>>

\* after the loop: best_action = get_best_action(root_node); return best_action
GetBestAction ==
    /\ pc = "select"
    /\ iter = num_nodes
    /\ best_action' = get_best_action(nodes, 1)
    /\ pc' = "done"
    /\ UNCHANGED <<bp_entry, calls>>
    /\ UNCHANGED moves
    /\ UNCHANGED <<sel_flags, sel_scores>>
    /\ UNCHANGED <<current_state, num_nodes, bot_identity, nodes, iter, node,
                   state, path, sel_node, sel_state, new_node, rstate, depth,
                   final_state, won, bp>>

Next ==
    \/ ThinkStart
    \/ TraverseNodes
    \/ ExpandLeaf
    \/ RolloutMove
    \/ RolloutReturn
    \/ IsWin
    \/ BackpropagateVisits
    \/ BackpropagateWins
    \/ BackpropagateReturn
    \/ GetBestAction

Spec == Init /\ [][Next]_vars

-----------------------------------------------------------------------------
(* Helpers of the properties *)

NodeIds == 1..Len(nodes)

Terminal(s) == legal_actions(s) = << >>

Children(n) == {nodes[n].child_nodes[i].child : i \in 1..Len(nodes[n].child_nodes)}

Keys(n) == Range(DictKeys(nodes[n].child_nodes))

\* the action of the one-ply games A and B that wins for the searching agent
WinningAction(s) == IF s = "A" THEN "a" ELSE "b"

-----------------------------------------------------------------------------
(* C1: think called on a state with no legal actions reports a "no decision *)
(* possible" error: it does not run the loop to its end and return a        *)
(* value.                                                                   *)
C1_TerminalRootNeverReturns ==
    Terminal(current_state) => pc # "done"

(* C2: on the one-ply games (A, B: two legal actions in either order, one   *)
(* an immediate win and one an immediate loss for the searching agent),    *)
(* after N >= 2 iterations the winning action's child has wins = visits    *)
(* and think returns the winning action.                                   *)
C2_OnePlyReturnsWinner ==
    (pc = "done" /\ current_state \in {"A", "B"} /\ num_nodes >= 2) =>
        /\ DictHas(nodes[1].child_nodes, WinningAction(current_state))
        /\ LET c == DictGet(nodes[1].child_nodes, WinningAction(current_state))
           IN nodes[c].wins = nodes[c].visits
        /\ best_action = WinningAction(current_state)

(* C3: when expand_leaf has expanded a node, the node it returned is the    *)
(* new child and the state it returned is the child's state, so the        *)
(* rollout starts from the child's state and backpropagation at the child. *)
C3_ExpandReturnsChild ==
    (pc = "rollout" /\ new_node # None) =>
        /\ node = new_node
        /\ state = next_state(sel_state, nodes[new_node].parent_action)

(* C4: a rollout that stopped on a state the rules engine does not report   *)
(* as ended (depth bound reached, or no legal action left) never ends      *)
(* think in an assertion failure.                                          *)
C4_NoAssertionFailure ==
    ~(/\ pc = "assertion_error"
      /\ ~is_ended(final_state)
      /\ (depth = MAX_DEPTH \/ legal_actions(final_state) = << >>))

(* C5: after k completed iterations the root's visits is k; when think      *)
(* returns, the root's visits is num_nodes.                                *)
C5_RootVisitsEqualIterations ==
    /\ pc = "select" => nodes[1].visits = iter
    /\ pc = "done" => nodes[1].visits = num_nodes

C5_Witness ==
    /\ pc = "done"
    /\ num_nodes >= 4
    /\ Len(nodes) >= 4
    /\ nodes[1].visits = num_nodes

(* C6: the action think returns is a key of the root's children, its child  *)
(* has the largest visit count of the root's children, and no child        *)
(* earlier in the mapping's order has that count.                          *)
C6_ReturnsFirstMostVisited ==
    pc = "done" =>
        \E i \in 1..Len(nodes[1].child_nodes) :
            /\ nodes[1].child_nodes[i].action = best_action
            /\ \A j \in 1..Len(nodes[1].child_nodes) :
                  nodes[nodes[1].child_nodes[j].child].visits
                      <= nodes[nodes[1].child_nodes[i].child].visits
            /\ \A j \in 1..(i - 1) :
                  nodes[nodes[1].child_nodes[j].child].visits
                      < nodes[nodes[1].child_nodes[i].child].visits

(* C7: every node always has 0 <= wins <= visits, also between the two      *)
(* updates of backpropagate's loop body, and no step lowers the wins or    *)
(* the visits of a node or removes a node.                                 *)
C7_WinsBounded ==
    \A n \in NodeIds : 0 <= nodes[n].wins /\ nodes[n].wins <= nodes[n].visits

C7_NeverDecrease ==
    /\ Len(nodes') >= Len(nodes)
    /\ \A n \in NodeIds : /\ nodes'[n].wins >= nodes[n].wins
                          /\ nodes'[n].visits >= nodes[n].visits

C7_WinsAndVisits == [] C7_WinsBounded /\ [][C7_NeverDecrease]_vars

C7_Witness ==
    /\ pc = "backpropagate_wins"
    /\ won
    /\ nodes[bp].parent # None
    /\ nodes[bp].wins + 1 = nodes[bp].visits
    /\ \E n \in NodeIds : 0 < nodes[n].wins /\ nodes[n].wins < nodes[n].visits

(* C8: traverse_nodes, at a node with a child of zero visits and a child    *)
(* of nonzero visits, descends into a child of zero visits.                *)
MixedChildren(n) ==
    /\ \E c \in Children(n) : nodes[c].visits = 0
    /\ \E c \in Children(n) : nodes[c].visits > 0

C8_UnvisitedChildFirst ==
    pc = "expand" =>
        \A i \in 1..(Len(path) - 1) :
            MixedChildren(path[i]) => nodes[path[i + 1]].visits = 0

C8_Witness ==
    /\ pc = "expand"
    /\ \E i \in 1..(Len(path) - 1) :
          /\ MixedChildren(path[i])
          /\ nodes[path[i]].child_nodes[1].child # path[i + 1]
          /\ nodes[path[i + 1]].visits = 0

(* C9: a step that expands node p takes exactly one action a out of p's     *)
(* untried_actions and adds exactly one entry, a with the new node, to p's *)
(* children, a not being a key before; the entries p had are kept, and no  *)
(* other node's untried_actions or children change.  No other step changes *)
(* them at all.                                                            *)
ExpandsBy(p, a) ==
    /\ a \in Range(nodes[p].untried_actions)
    /\ Len(nodes'[p].untried_actions) = Len(nodes[p].untried_actions) - 1
    /\ \E i \in 1..Len(nodes[p].untried_actions) :
          /\ nodes[p].untried_actions[i] = a
          /\ nodes'[p].untried_actions =
                 SubSeq(nodes[p].untried_actions, 1, i - 1)
                     \o SubSeq(nodes[p].untried_actions, i + 1,
                               Len(nodes[p].untried_actions))
    /\ a \notin Keys(p)
    /\ Len(nodes') = Len(nodes) + 1
    /\ nodes'[p].child_nodes =
           Append(nodes[p].child_nodes, [action |-> a, child |-> Len(nodes')])
    /\ \A n \in NodeIds \ {p} :
          /\ nodes'[n].untried_actions = nodes[n].untried_actions
          /\ nodes'[n].child_nodes = nodes[n].child_nodes

C9_Step ==
    IF pc = "expand" /\ nodes[node].untried_actions # << >>
    THEN \E a \in Actions : ExpandsBy(node, a)
    ELSE nodes # << >> =>
            /\ Len(nodes') = Len(nodes)
            /\ \A n \in NodeIds :
                  /\ nodes'[n].untried_actions = nodes[n].untried_actions
                  /\ nodes'[n].child_nodes = nodes[n].child_nodes

C9_ExpansionUnique == [][C9_Step]_vars

C9_Witness ==
    /\ pc = "rollout"
    /\ new_node # None
    /\ Len(nodes[nodes[new_node].parent].child_nodes) = 2
    /\ nodes[nodes[new_node].parent].untried_actions = << >>
    /\ nodes[new_node].parent # 1

-----------------------------------------------------------------------------
(* backpropagate on its own: a call backpropagate(node, won) on a tree of  *)
(* the game D, with node any node of the tree or None.  The trees are      *)
(* those expand_leaf builds from the root, with any statistics having      *)
(* wins <= visits <= MaxVisits.                                            *)

MaxVisits == 1

TreeShapes ==
    LET h0 == <<MCTSNode(None, NoAction, legal_actions("D"))>>
        h1 == expand_leaf(h0, 1, "D").nodes
        h2 == expand_leaf(h1, 1, "D").nodes
        h3 == expand_leaf(h2, 2, "F").nodes
        h4 == expand_leaf(h3, 4, "A").nodes
    IN {h0, h1, h2, h3, h4}

Statistics == {st \in [visits : 0..MaxVisits, wins : 0..MaxVisits] : st.wins <= st.visits}

BackpropagateInit ==
    /\ current_state = "D"
    /\ num_nodes = 1
    /\ bot_identity = current_player("D")
    /\ \E h \in TreeShapes : \E st \in [1..Len(h) -> Statistics] :
          nodes = [n \in 1..Len(h) |->
                      [h[n] EXCEPT !.visits = st[n].visits, !.wins = st[n].wins]]
    /\ iter = 0
    /\ pc = "backpropagate"
    /\ node \in {None} \cup (1..Len(nodes))
    /\ state = "D"
    /\ path = << >>
    /\ sel_node = None
    /\ sel_flags = << >>
    /\ sel_scores = << >>
    /\ sel_state = "D"
    /\ new_node = None
    /\ rstate = "D"
    /\ depth = 0
    /\ moves = 0
    /\ final_state = "D"
    /\ won \in BOOLEAN
    /\ bp = node
    /\ bp_entry = nodes
    /\ calls = << >>
    /\ best_action = NoAction

BackpropagateNext ==
    \/ BackpropagateVisits
    \/ BackpropagateWins
    \/ BackpropagateReturn

BackpropagateSpec == BackpropagateInit /\ [][BackpropagateNext]_vars

\* the nodes from n up to the root, by the parent links of heap h
RECURSIVE ParentChain(_, _)
ParentChain(h, n) ==
    IF n = None THEN {} ELSE {n} \cup ParentChain(h, h[n].parent)

(* C11: when a call backpropagate(node, won) has left its loop, every node  *)
(* on the parent chain from `node` to the root has visits one higher than  *)
(* at the call, and wins one higher if won and equal if not; every other   *)
(* node, and every node's children, untried_actions, parent and            *)
(* parent_action, are as at the call; with node = None the heap is as at   *)
(* the call.                                                               *)
C11_BackpropagateEffect ==
    ((pc = "select" /\ iter > 0) \/ (pc = "backpropagate" /\ bp = None)) =>
        /\ Len(nodes) = Len(bp_entry)
        /\ \A n \in 1..Len(nodes) :
              LET onChain == n \in ParentChain(bp_entry, node)
              IN nodes[n] =
                    [bp_entry[n] EXCEPT
                        !.visits = IF onChain THEN @ + 1 ELSE @,
                        !.wins = IF onChain /\ won THEN @ + 1 ELSE @]
        /\ node = None => nodes = bp_entry

C11_Witness ==
    /\ pc = "select"
    /\ won
    /\ Len(nodes) = 5
    /\ node = 4
    /\ nodes[4].visits = 2 /\ nodes[2].visits = 1 /\ nodes[1].visits = 2
    /\ nodes[3] = bp_entry[3] /\ nodes[5] = bp_entry[5]

-----------------------------------------------------------------------------
(* C12: between iterations, the visits of every node is the number of      *)
(* calls of backpropagate that started at it plus the visits of its        *)
(* children, and its wins is the number of those calls with won true plus  *)
(* the wins of its children.                                               *)
RECURSIVE SumOver(_, _, _)
SumOver(items, i, field) ==
    IF i > Len(items) THEN 0
    ELSE (IF field = "visits" THEN nodes[items[i].child].visits
                              ELSE nodes[items[i].child].wins)
         + SumOver(items, i + 1, field)

StartedAt(n) == Cardinality({i \in 1..Len(calls) : calls[i].node = n})

WonAt(n) == Cardinality({i \in 1..Len(calls) : calls[i].node = n /\ calls[i].won})

C12_VisitsAggregate ==
    pc \in {"select", "done"} =>
        \A n \in NodeIds :
            /\ nodes[n].visits = StartedAt(n) + SumOver(nodes[n].child_nodes, 1, "visits")
            /\ nodes[n].wins = WonAt(n) + SumOver(nodes[n].child_nodes, 1, "wins")

C12_Witness ==
    /\ pc = "select"
    /\ \E n \in NodeIds :
          /\ nodes[n].parent # None
          /\ StartedAt(n) >= 1
          /\ WonAt(n) >= 1
          /\ WonAt(n) < StartedAt(n)
          /\ SumOver(nodes[n].child_nodes, 1, "visits") >= 2
          /\ nodes[n].wins > WonAt(n)

-----------------------------------------------------------------------------
(* C13: at every node traverse_nodes descends from, each child with        *)
(* visits > 0 has a parent with visits >= 1, indeed with at least the      *)
(* child's visits; ucb never takes the logarithm of 0.                     *)
C13_ParentVisited ==
    /\ pc # "value_error"
    /\ pc = "expand" =>
          \A i \in 1..(Len(path) - 1) : \A c \in Children(path[i]) :
              nodes[c].visits > 0 =>
                  /\ nodes[nodes[c].parent].visits >= 1
                  /\ nodes[nodes[c].parent].visits >= nodes[c].visits

C13_Witness ==
    /\ pc = "expand"
    /\ \E i \in 1..(Len(path) - 1) : \E c \in Children(path[i]) :
          /\ nodes[path[i]].parent # None
          /\ nodes[c].visits > 1
          /\ nodes[nodes[c].parent].visits > nodes[c].visits

-----------------------------------------------------------------------------
(* C14: traverse_nodes, called on the root and current_state, goes through *)
(* nodes that have a child and no untried action, each time into the first *)
(* child of the largest ucb score; the node it returns has an untried      *)
(* action or no child; the state it returns is current_state with the      *)
(* actions of the path applied in order; it changes no node.               *)

\* the state of node n: current_state with the actions leading to n applied
RECURSIVE NodeState(_)
NodeState(n) ==
    IF nodes[n].parent = None THEN current_state
    ELSE next_state(NodeState(nodes[n].parent), nodes[n].parent_action)

\* the flag traverse_nodes passes to ucb at node n
IsOpponentAt(n) ==
    nodes[n].parent # None /\ current_player(NodeState(n)) # bot_identity

\* the state after the first k - 1 actions of the path
RECURSIVE PathState(_)
PathState(k) ==
    IF k = 1 THEN current_state
    ELSE LET items == nodes[path[k - 1]].child_nodes
             e == CHOOSE j \in 1..Len(items) : items[j].child = path[k]
         IN next_state(PathState(k - 1), items[e].action)

FirstBestChild(p, c) ==
    LET items == nodes[p].child_nodes
        score(j) == ucb(nodes, items[j].child, IsOpponentAt(p))
    IN \E k \in 1..Len(items) :
          /\ items[k].child = c
          /\ \A j \in 1..Len(items) : score(j) <= score(k)
          /\ \A j \in 1..(k - 1) : score(j) < score(k)

C14_Descent ==
    pc = "expand" =>
        /\ path # << >>
        /\ path[1] = 1
        /\ path[Len(path)] = sel_node
        /\ \A i \in 1..(Len(path) - 1) :
              /\ nodes[path[i]].child_nodes # << >>
              /\ nodes[path[i]].untried_actions = << >>
              /\ FirstBestChild(path[i], path[i + 1])
        /\ \/ nodes[sel_node].untried_actions # << >>
           \/ nodes[sel_node].child_nodes = << >>
        /\ sel_state = PathState(Len(path))
        /\ node = sel_node /\ state = sel_state

C14_ChangesNothing == pc = "select" => nodes' = nodes

C14_TraverseNodes == [] C14_Descent /\ [][C14_ChangesNothing]_vars

C14_Witness ==
    /\ pc = "expand"
    /\ Len(path) = 3
    /\ \E j \in 2..Len(nodes[path[1]].child_nodes) :
          /\ nodes[path[1]].child_nodes[j].child = path[2]
          /\ nodes[path[2]].visits > 0
    /\ nodes[path[2]].child_nodes[1].child = path[3]
    /\ Len(nodes[path[2]].child_nodes) = 2
    /\ nodes[nodes[path[2]].child_nodes[2].child].visits = 0
    /\ sel_state # current_state

-----------------------------------------------------------------------------
(* C15: rollout applies at most MAX_DEPTH actions; while it runs it can     *)
(* always take a step, and each step applies one action or returns, so it  *)
(* returns after at most MAX_DEPTH actions; it applies                     *)
(* an action only to a state that is not ended, with fewer than MAX_DEPTH  *)
(* actions applied, and the action is a legal action of that state; the    *)
(* state it returns is ended, or was reached by MAX_DEPTH actions, or has  *)
(* no legal action; a start state that is ended is returned as it is with  *)
(* no action applied.                                                      *)
C15_Bounded ==
    /\ moves <= MAX_DEPTH
    /\ pc = "rollout" => ENABLED (RolloutMove \/ RolloutReturn)
    /\ pc = "is_win" =>
          /\ final_state = rstate
          /\ \/ is_ended(final_state)
             \/ moves = MAX_DEPTH
             \/ legal_actions(final_state) = << >>
          /\ is_ended(state) => (final_state = state /\ moves = 0)

C15_Move ==
    pc = "rollout" =>
        \/ /\ moves' = moves + 1
           /\ ~is_ended(rstate)
           /\ moves < MAX_DEPTH
           /\ \E a \in Range(legal_actions(rstate)) : rstate' = next_state(rstate, a)
        \/ /\ moves' = moves
           /\ rstate' = rstate
           /\ pc' = "is_win"
           /\ \/ is_ended(rstate)
              \/ moves = MAX_DEPTH
              \/ legal_actions(rstate) = << >>

C15_Rollout == [] C15_Bounded /\ [][C15_Move]_vars

C15_Witness ==
    /\ pc = "is_win"
    /\ moves = MAX_DEPTH
    /\ ~is_ended(final_state)
    /\ legal_actions(final_state) # << >>

-----------------------------------------------------------------------------
(* C16: the expansion step of an iteration adds exactly one node when the  *)
(* node selection returned has an untried action and otherwise changes no  *)
(* node's children, untried_actions or parent; no other step of the        *)
(* iteration adds a node; no step removes a node or changes the parent of  *)
(* one; after k iterations the tree has at most k + 1 nodes.               *)
SameStructure ==
    /\ Len(nodes') = Len(nodes)
    /\ \A n \in NodeIds :
          /\ nodes'[n].child_nodes = nodes[n].child_nodes
          /\ nodes'[n].untried_actions = nodes[n].untried_actions
          /\ nodes'[n].parent = nodes[n].parent

C16_Step ==
    /\ Len(nodes') >= Len(nodes)
    /\ \A n \in NodeIds : nodes'[n].parent = nodes[n].parent
    /\ pc = "expand" =>
          IF nodes[sel_node].untried_actions # << >>
          THEN Len(nodes') = Len(nodes) + 1
          ELSE SameStructure
    /\ pc \notin {"start", "expand"} => SameStructure

C16_Size ==
    /\ pc \in {"select", "done"} => Len(nodes) <= iter + 1
    /\ pc \notin {"start", "select", "done"} => Len(nodes) <= iter + 2

C16_OneNodePerIteration == [] C16_Size /\ [][C16_Step]_vars

C16_Witness ==
    /\ pc = "rollout"
    /\ new_node = None
    /\ nodes[sel_node].untried_actions = << >>
    /\ sel_node # 1
    /\ Len(nodes) >= 4
    /\ Len(nodes) < iter + 1

-----------------------------------------------------------------------------
(* C17: the flag traverse_nodes passes to ucb is false at the root and, at *)
(* any other node, true exactly when the player to move in that node's     *)
(* state is not the searching agent; the score of a child with visits > 0  *)
(* is its exploration term plus 1 - wins/visits with the flag set and plus *)
(* wins/visits with the flag clear (a child with no win scored as an       *)
(* opponent move has win-rate term 1).                                     *)
ExplorationTerm(c) ==
    explore_faction *
    sqrt(LogTable[nodes[nodes[c].parent].visits] \div nodes[c].visits)

WinRate(c) == (nodes[c].wins * SCALE) \div nodes[c].visits

C17_Perspective ==
    pc = "expand" =>
        /\ Len(sel_flags) = Len(path) - 1
        /\ \A i \in 1..(Len(path) - 1) :
              /\ nodes[path[i]].parent = None => sel_flags[i] = FALSE
              /\ nodes[path[i]].parent # None =>
                    sel_flags[i] = (current_player(NodeState(path[i])) # bot_identity)
              /\ \A j \in 1..Len(nodes[path[i]].child_nodes) :
                    LET c == nodes[path[i]].child_nodes[j].child
                    IN nodes[c].visits > 0 =>
                          sel_scores[i][j] - ExplorationTerm(c) =
                              IF sel_flags[i] THEN SCALE - WinRate(c) ELSE WinRate(c)

C17_Witness ==
    /\ pc = "expand"
    /\ \E i \in 2..(Len(path) - 1) : \E j \in 1..Len(nodes[path[i]].child_nodes) :
          LET c == nodes[path[i]].child_nodes[j].child
          IN /\ sel_flags[i]
             /\ nodes[c].visits > 0
             /\ nodes[c].wins = 0
             /\ sel_scores[i][j] - ExplorationTerm(c) = SCALE

-----------------------------------------------------------------------------
====
